---- MODULE Spec2Model ----
(***************************************************************************)
(* Model of tools/check_url_safety.py: the URLSafetyChecker instance, its  *)
(* two list attributes, and the check_url / check_batch operations.        *)
(*                                                                         *)
(* Python lists are objects with identity: a Verdict dict holds references *)
(* to self.warnings and self.errors, not copies.  The model keeps a heap   *)
(* of list objects and stores addresses, so that aliasing between the      *)
(* instance and the Verdicts it has handed out is visible.                 *)
(***************************************************************************)
EXTENDS Integers, Sequences, FiniteSets, TLC

(***************************************************************************)
(* Strings.  A str is a TLA+ string; Len, \o and SubSeq work on it.        *)
(***************************************************************************)

\* s[i] for a 1-based index.
CharAt(s, i) == SubSeq(s, i, i)

\* sub in s
Contains(s, sub) ==
    \E i \in 1..(Len(s) - Len(sub) + 1) : SubSeq(s, i, i + Len(sub) - 1) = sub

\* s.endswith(suffix); also what the regex "suffix$" finds in a string
\* that does not end in a line break.
EndsWith(s, suffix) ==
    /\ Len(s) >= Len(suffix)
    /\ SubSeq(s, Len(s) - Len(suffix) + 1, Len(s)) = suffix

\* s.find(c) for a one-character c, 1-based; 0 when c is absent.
Find(s, c) ==
    IF \E i \in 1..Len(s) : CharAt(s, i) = c
    THEN CHOOSE i \in 1..Len(s) :
            /\ CharAt(s, i) = c
            /\ \A j \in 1..(i - 1) : CharAt(s, j) # c
    ELSE 0

UpperLetters == "ABCDEFGHIJKLMNOPQRSTUVWXYZ"
LowerLetters == "abcdefghijklmnopqrstuvwxyz"
Digits == "0123456789"

\* the characters of s, as a set
Chars(s) == { CharAt(s, i) : i \in 1..Len(s) }

DigitChars == Chars(Digits)
AlphaChars == Chars(UpperLetters) \cup Chars(LowerLetters)

IsDigit(c) == c \in DigitChars
IsAlpha(c) == c \in AlphaChars

LowerMap == [ c \in Chars(UpperLetters) |-> CharAt(LowerLetters, Find(UpperLetters, c)) ]

LowerChar(c) == IF c \in DOMAIN LowerMap THEN LowerMap[c] ELSE c

\* str.lower()
RECURSIVE lower(_)
lower(s) == IF s = "" THEN "" ELSE LowerChar(CharAt(s, 1)) \o lower(SubSeq(s, 2, Len(s)))

IsSpace(c) == c \in {" ", "\t", "\n", "\r"}

RECURSIVE lstrip(_)
lstrip(s) ==
    IF s # "" /\ IsSpace(CharAt(s, 1)) THEN lstrip(SubSeq(s, 2, Len(s))) ELSE s

RECURSIVE rstrip(_)
rstrip(s) ==
    IF s # "" /\ IsSpace(CharAt(s, Len(s))) THEN rstrip(SubSeq(s, 1, Len(s) - 1)) ELSE s

\* str.strip()
strip(s) == rstrip(lstrip(s))

\* len(s.split('.'))
RECURSIVE CountDots(_)
CountDots(s) ==
    IF s = "" THEN 0
    ELSE (IF CharAt(s, 1) = "." THEN 1 ELSE 0) + CountDots(SubSeq(s, 2, Len(s)))

SplitLen(s) == CountDots(s) + 1

(***************************************************************************)
(* The texts the callers pass as URLs.                                     *)
(***************************************************************************)

UrlTexts == <<
    "",
    "   ",
    "not a url",
    "http://example.com",
    "https://example.com",
    "ftp://example.com",
    "https://github.com/some/repo",
    "https://secure-verify-account.tk/login",
    "https://secure-verify-account.tk",
    "https://a.com",
    "https://github.com",
    "http://malicious-example.com/x",
    "https://malicious-example.com",
    "https://spam-domain.tk",
    "ftp://malicious-example.com/",
    "https://Malicious-Example.COM/",
    "http://[::1",
    "https://a]b/",
    "http://",
    "https:///path",
    "//github.com/x",
    "ftp://github.com/x",
    "http://github.com/x",
    "https://malicious-example.com.github.com/",
    "http://malicious-example.com.github.com/",
    "https://github.com/paypal-login/secure-account.exe",
    "https://docs.aws.amazon.com/a----------b/verify-account@1.2.3.4.tk",
    "https://paypal.example.com/",
    "https://amazon.example.net/",
    "https://microsoft.example.net/",
    "https://google.example.net/",
    "https://apple.example.com/",
    "https://apple.example.com/login",
    "https://paypal.example.com/login",
    "https://login.example.com/apple",
    "https://example.com/login",
    "https://bit.ly/abc",
    "https://user@example.com/",
    "https://192.168.1.10/admin",
    "https://example.com/v1.2.3",
    "https://example.com/setup.exe",
    "https://example.com/a----------b",
    "https://example.com/a---------b",
    "https://aaaaaaaaaaaaaaaaaaaaaaaaaaaaaaaaaaaaaaaaaaaaa.example.org/",
    "https://aaaaaaaaaaaaaaaaaaaaaaaaaaaaaaaaaaaaaa.example.org/",
    "https://a.b.c.d.example.org/",
    "https://a.b.c.example.org/",
    "  https://example.com  ",
    "HTTPS://EXAMPLE.COM/",
    "HTTP://GitHub.com/",
    "https://example.ml",
    "https://example.ga?q=1",
    "https://example.cf/",
    "https://example.gq#top",
    "https://example.tk\n",
    "mailto:someone@example.com",
    "javascript:alert(1)",
    "https://t.co/xyz",
    "https://example.com/verify-your-account",
    "https://evil.example/github.com/login-paypal",
    "https://notgithub.com.evil.tk",
    "https://example.com/Suspended/Account",
    "https://example.com/account-secure",
    "http://secure-account.example.tk",
    "example.com",
    "https:example.com",
    "1http://example.com",
    "ht\ttps://example.com" >>

\* url.strip() of every text: the strings urlparse and re.search are given
StrippedTexts == { strip(UrlTexts[i]) : i \in 1..Len(UrlTexts) }

(***************************************************************************)
(* urllib.parse.urlparse, as far as check_url reads its result             *)
(* (scheme and netloc).  The inputs of this model are ASCII, hold no       *)
(* control character other than tab, CR and LF, and hold no bracketed      *)
(* host with both brackets, so the NFKC test and the bracketed-host        *)
(* validation of urlsplit never fire; the unbalanced-bracket test does.    *)
(***************************************************************************)

\* url.replace(b, "") for b in "\t", "\r", "\n"
RECURSIVE RemoveUnsafe(_)
RemoveUnsafe(s) ==
    IF s = "" THEN ""
    ELSE (IF CharAt(s, 1) \in {"\t", "\r", "\n"} THEN "" ELSE CharAt(s, 1))
            \o RemoveUnsafe(SubSeq(s, 2, Len(s)))

\* c in scheme_chars
IsSchemeChar(c) == IsAlpha(c) \/ IsDigit(c) \/ c \in {"+", "-", "."}

\* _splitnetloc(url, 2): the 1-based index of the first of "/?#" after
\* the leading "//", or Len(url) + 1.
NetlocEnd(url) ==
    IF \E i \in 3..Len(url) : CharAt(url, i) \in {"/", "?", "#"}
    THEN CHOOSE i \in 3..Len(url) :
            /\ CharAt(url, i) \in {"/", "?", "#"}
            /\ \A j \in 3..(i - 1) : CharAt(url, j) \notin {"/", "?", "#"}
    ELSE Len(url) + 1

\* [raised |-> TRUE] when urlsplit raises ValueError, else the scheme and
\* the netloc of the parse result.
urlsplit(url0) ==
    LET url == RemoveUnsafe(lstrip(url0))
        i == Find(url, ":")
        hasScheme == /\ i > 1
                     /\ IsAlpha(CharAt(url, 1))
                     /\ \A k \in 1..(i - 1) : IsSchemeChar(CharAt(url, k))
        scheme == IF hasScheme THEN lower(SubSeq(url, 1, i - 1)) ELSE ""
        rest == IF hasScheme THEN SubSeq(url, i + 1, Len(url)) ELSE url
        hasNetloc == Len(rest) >= 2 /\ SubSeq(rest, 1, 2) = "//"
        netloc == IF hasNetloc THEN SubSeq(rest, 3, NetlocEnd(rest) - 1) ELSE ""
        invalidIPv6 == \/ Contains(netloc, "[") /\ ~Contains(netloc, "]")
                       \/ Contains(netloc, "]") /\ ~Contains(netloc, "[")
    IN  IF hasNetloc /\ invalidIPv6
        THEN [raised |-> TRUE, scheme |-> "", netloc |-> ""]
        ELSE [raised |-> FALSE, scheme |-> scheme, netloc |-> netloc]

\* urlsplit is an lru_cache'd function: each text is split once.
UrlsplitCache == [ s \in StrippedTexts |-> urlsplit(s) ]

urlparse(url) == IF url \in DOMAIN UrlsplitCache THEN UrlsplitCache[url] ELSE urlsplit(url)

\* str(e) of the ValueError urlsplit raises
ParseErrorText == "Invalid IPv6 URL"

(***************************************************************************)
(* The static tables.                                                      *)
(***************************************************************************)

SUSPICIOUS_PATTERNS == <<
    "bit\\.ly|goo\\.gl|tinyurl\\.com|ow\\.ly|t\\.co",
    "@",
    "\\.tk$|\\.ml$|\\.ga$|\\.cf$|\\.gq$",
    "[0-9]{1,3}\\.[0-9]{1,3}\\.[0-9]{1,3}\\.[0-9]{1,3}",
    "paypal|amazon|microsoft|google|apple.*login",
    "secure.*account|verify.*account|suspended.*account",
    "exe$|\\.scr$|\\.bat$|\\.cmd$|\\.vbs$",
    "-{10,}" >>

BLOCKLIST == << "malicious-example.com", "spam-domain.tk" >>

WHITELIST == << "github.com", "youtube.com", "wiz.io", "aws.amazon.com",
                "docs.aws.amazon.com", "owasp.org", "cisa.gov", "nist.gov",
                "csoh.org", "microsoft.com", "google.com", "cloudflare.com",
                "wikipedia.org" >>

(***************************************************************************)
(* re.search(pattern, url, re.IGNORECASE) for the eight patterns of the    *)
(* table, each read with the precedence of the regex syntax: "|" binds     *)
(* weaker than concatenation, "$" anchors only the alternative it is in.   *)
(***************************************************************************)

\* the regex  a.*b : a, then any characters but a line break, then b
GapMatch(s, a, b) ==
    \E i \in 1..(Len(s) - Len(a) + 1) :
        /\ SubSeq(s, i, i + Len(a) - 1) = a
        /\ \E j \in (i + Len(a))..(Len(s) - Len(b) + 1) :
              /\ SubSeq(s, j, j + Len(b) - 1) = b
              /\ ~Contains(SubSeq(s, i + Len(a), j - 1), "\n")

\* [0-9]{1,3} followed by k-1 times \.[0-9]{1,3}, matched at index i
RECURSIVE OctetsAt(_, _, _)
OctetsAt(s, i, k) ==
    \E n \in 1..3 :
        /\ i + n - 1 <= Len(s)
        /\ \A d \in i..(i + n - 1) : IsDigit(CharAt(s, d))
        /\ \/ k = 1
           \/ /\ i + n <= Len(s)
              /\ CharAt(s, i + n) = "."
              /\ OctetsAt(s, i + n + 1, k - 1)

OctetCount == 4

\* x$ : x at the end of the string, or right before a final line break
AtEnd(s, x) == EndsWith(s, x) \/ EndsWith(s, x \o "\n")

regex_search(p, url) ==
    LET s == lower(url) IN
    CASE p = 1 -> \E x \in {"bit.ly", "goo.gl", "tinyurl.com", "ow.ly", "t.co"} :
                     Contains(s, x)
      [] p = 2 -> Contains(s, "@")
      [] p = 3 -> \E x \in {".tk", ".ml", ".ga", ".cf", ".gq"} : AtEnd(s, x)
      [] p = 4 -> \E i \in 1..Len(s) : OctetsAt(s, i, OctetCount)
      [] p = 5 -> \/ \E x \in {"paypal", "amazon", "microsoft", "google"} :
                        Contains(s, x)
                  \/ GapMatch(s, "apple", "login")
      [] p = 6 -> \E x \in {"secure", "verify", "suspended"} :
                     GapMatch(s, x, "account")
      [] p = 7 -> \E x \in {"exe", ".scr", ".bat", ".cmd", ".vbs"} : AtEnd(s, x)
      [] p = 8 -> Contains(s, "----------")

\* the matches of the table's patterns on the texts, each computed once
SearchTable ==
    [ p \in 1..Len(SUSPICIOUS_PATTERNS) |-> [ s \in StrippedTexts |-> regex_search(p, s) ] ]

re_search(p, url) ==
    IF url \in StrippedTexts THEN SearchTable[p][url] ELSE regex_search(p, url)

(***************************************************************************)
(* Python values passed as the url argument.  A str carries its text; any  *)
(* other value carries its type name and its truth value, which is all     *)
(* that line 74 reads of it.                                               *)
(***************************************************************************)

Str(s) == [type |-> "str", val |-> s, truthy |-> s # ""]
NonStr(t, repr, truthy) == [type |-> t, val |-> repr, truthy |-> truthy]

(***************************************************************************)
(* The heap of list objects.  An address is an index into the heap.        *)
(***************************************************************************)

\* list.append(msg) on the list at address a
AppendTo(h, a, msg) == [h EXCEPT ![a] = Append(@, msg)]

(***************************************************************************)
(* URLSafetyChecker._result: the Verdict dict.  warnings and errors are    *)
(* the addresses of self.warnings and self.errors, not copies.             *)
(***************************************************************************)

\* variant: "suspicious" computed only for a safe Verdict
_result_SuspiciousWhenSafe(h, w, e, safe) ==
    [ safe       |-> safe /\ Len(h[e]) = 0,
      warnings   |-> w,
      errors     |-> e,
      suspicious |-> safe /\ Len(h[w]) > 0 ]

_result(h, w, e, safe) ==
    [ safe       |-> safe /\ Len(h[e]) = 0,
      warnings   |-> w,
      errors     |-> e,
      suspicious |-> Len(h[w]) > 0 ]

\* "return self._result(safe)": the state the call leaves and its Verdict
Return(h, w, e, safe) ==
    [ heap |-> h, warnings |-> w, errors |-> e,
      result |-> _result(h, w, e, safe), exception |-> "None" ]

(***************************************************************************)
(* check_url, last step first: each step returns a Verdict or goes on to   *)
(* the step defined above it.                                              *)
(***************************************************************************)

HttpWarning == "Uses HTTP (not HTTPS) - may be insecure"
EmptyError == "Invalid URL: empty or not a string"
ParseError == "Failed to parse URL: " \o ParseErrorText
SchemeError(scheme) == "Invalid scheme: " \o scheme \o " (only http/https allowed)"
DomainError == "No domain found in URL"
BlocklistError(domain) == "Domain '" \o domain \o "' is on blocklist"
PatternWarning(p) == "Suspicious pattern detected: " \o SUSPICIOUS_PATTERNS[p]
LongDomainWarning(n) == "Unusually long domain: " \o ToString(n) \o " characters"
SubdomainWarning(n) == "Excessive subdomains: " \o ToString(n) \o " levels"

MaxDomainLen == 50
MaxDomainParts == 5

\* for pattern in SUSPICIOUS_PATTERNS, from index p on
RECURSIVE ScanPatterns(_, _, _, _)
ScanPatterns(h, w, url, p) ==
    IF p > Len(SUSPICIOUS_PATTERNS) THEN h
    ELSE ScanPatterns(IF re_search(p, url) THEN AppendTo(h, w, PatternWarning(p)) ELSE h,
                      w, url, p + 1)

LengthCheck(h, w, domain) ==
    IF Len(domain) > MaxDomainLen
    THEN AppendTo(h, w, LongDomainWarning(Len(domain)))
    ELSE h

SubdomainCheck(h, w, domain) ==
    IF SplitLen(domain) > MaxDomainParts
    THEN AppendTo(h, w, SubdomainWarning(SplitLen(domain)))
    ELSE h

is_whitelisted(domain) == \E k \in 1..Len(WHITELIST) : Contains(domain, WHITELIST[k])

\* variant: the blocklist compared with ==, not with "in"
is_blocked_Exact(domain) == \E k \in 1..Len(BLOCKLIST) : domain = BLOCKLIST[k]

is_blocked(domain) == \E k \in 1..Len(BLOCKLIST) : Contains(domain, BLOCKLIST[k])

\* variant: the heuristic scan without the whitelist test
PatternChecks_NoWhitelist(h, w, e, url, domain) ==
    Return(SubdomainCheck(LengthCheck(ScanPatterns(h, w, url, 1), w, domain), w, domain),
           w, e, TRUE)

\* lines 107-126
PatternChecks(h, w, e, url, domain) ==
    IF ~is_whitelisted(domain)
    THEN Return(SubdomainCheck(LengthCheck(ScanPatterns(h, w, url, 1), w, domain),
                               w, domain),
                w, e, TRUE)
    ELSE Return(h, w, e, TRUE)

\* lines 101-105
BlocklistCheck(h, w, e, url, domain) ==
    IF is_blocked(domain)
    THEN Return(AppendTo(h, e, BlocklistError(domain)), w, e, FALSE)
    ELSE PatternChecks(h, w, e, url, domain)

\* lines 95-99
DomainCheck(h, w, e, url, parsed) ==
    LET domain == lower(parsed.netloc) IN
    IF domain = ""
    THEN Return(AppendTo(h, e, DomainError), w, e, FALSE)
    ELSE BlocklistCheck(h, w, e, url, domain)

\* variant: the scheme error recorded without the return of line 90
SchemeCheck_NoReturn(h, w, e, url, parsed) ==
    DomainCheck(IF parsed.scheme \notin {"http", "https"}
                THEN AppendTo(h, e, SchemeError(parsed.scheme))
                ELSE IF parsed.scheme = "http" THEN AppendTo(h, w, HttpWarning) ELSE h,
                w, e, url, parsed)

\* lines 87-93
SchemeCheck(h, w, e, url, parsed) ==
    IF parsed.scheme \notin {"http", "https"}
    THEN Return(AppendTo(h, e, SchemeError(parsed.scheme)), w, e, FALSE)
    ELSE DomainCheck(IF parsed.scheme = "http" THEN AppendTo(h, w, HttpWarning) ELSE h,
                     w, e, url, parsed)

\* variant: urlparse called outside any try block
ParseCheck_NoTry(h, w, e, url) ==
    LET parsed == urlparse(url) IN
    IF parsed.raised
    THEN [ heap |-> h, warnings |-> w, errors |-> e,
           result |-> _result(h, w, e, FALSE), exception |-> "ValueError" ]
    ELSE SchemeCheck(h, w, e, url, parsed)

\* variant: the whitelist test made right after parsing, returning at once
ParseCheck_WhitelistFirst(h, w, e, url) ==
    LET parsed == urlparse(url) IN
    IF parsed.raised
    THEN Return(AppendTo(h, e, ParseError), w, e, FALSE)
    ELSE IF is_whitelisted(lower(parsed.netloc))
         THEN Return(h, w, e, TRUE)
         ELSE SchemeCheck(h, w, e, url, parsed)

\* lines 80-85
ParseCheck(h, w, e, url) ==
    LET parsed == urlparse(url) IN
    IF parsed.raised
    THEN Return(AppendTo(h, e, ParseError), w, e, FALSE)
    ELSE SchemeCheck(h, w, e, url, parsed)

\* lines 73-78
BasicValidation(h, w, e, v) ==
    IF ~v.truthy \/ v.type # "str"
    THEN Return(AppendTo(h, e, EmptyError), w, e, FALSE)
    ELSE ParseCheck(h, w, e, strip(v.val))

\* variant: lines 70-71 left out
ResetLists_Missing(h, w, e) == [ heap |-> h, warnings |-> w, errors |-> e ]

\* variant: self.warnings.clear(); self.errors.clear() on the old lists
ResetLists_InPlace(h, w, e) ==
    [ heap |-> [ h EXCEPT ![w] = << >>, ![e] = << >> ], warnings |-> w, errors |-> e ]

\* lines 70-71: self.warnings = []; self.errors = [] bind two new lists
ResetLists(h, w, e) ==
    [ heap |-> h \o << <<>>, <<>> >>, warnings |-> Len(h) + 1, errors |-> Len(h) + 2 ]

check_url(h, w, e, v) ==
    LET r == ResetLists(h, w, e) IN BasicValidation(r.heap, r.warnings, r.errors, v)

(***************************************************************************)
(* check_batch: results.append((url, result)) for each url in order.       *)
(* An exception of check_url leaves the loop and the function.             *)
(***************************************************************************)

\* the element of a one-element set: a step is completed, and its value
\* fixed, before the next one starts
The(S) == CHOOSE x \in S : TRUE

RECURSIVE BatchLoop(_, _, _)
BatchLoop(st, list, i) ==
    IF i > Len(list) \/ st.exception # "None" THEN st
    ELSE The({ BatchLoop(next, list, i + 1) :
                 next \in { [ heap |-> r.heap, warnings |-> r.warnings,
                              errors |-> r.errors,
                              results |-> Append(st.results, << list[i], r.result >>),
                              exception |-> r.exception ] :
                            r \in { check_url(st.heap, st.warnings, st.errors,
                                              list[i]) } } })

check_batch(h, w, e, list) ==
    BatchLoop([ heap |-> h, warnings |-> w, errors |-> e, results |-> << >>,
                exception |-> "None" ], list, 1)

(***************************************************************************)
(* The arguments the callers pass: the texts below as str values, and six  *)
(* values that are not str.                                                *)
(***************************************************************************)

NonStrings == {
    NonStr("NoneType", "None", FALSE),
    NonStr("int", "0", FALSE),
    NonStr("int", "123", TRUE),
    NonStr("list", "[]", FALSE),
    NonStr("list", "['https://a.com']", TRUE),
    NonStr("bytes", "b'https://a.com'", TRUE) }

Inputs == { Str(UrlTexts[i]) : i \in 1..Len(UrlTexts) } \cup NonStrings

\* the elements of the lists passed to check_batch
BatchInputs == {
    Str("https://a.com"),
    Str("not a url"),
    Str("https://github.com"),
    Str("http://example.com") }

\* longest list passed to check_batch
MaxBatch == 3

RECURSIVE SeqsUpTo(_, _)
SeqsUpTo(S, n) ==
    IF n = 0 THEN { << >> }
    ELSE LET shorter == SeqsUpTo(S, n - 1) IN
         shorter \cup { Append(q, x) : q \in { r \in shorter : Len(r) = n - 1 }, x \in S }

BatchLists == SeqsUpTo(BatchInputs, MaxBatch)

(***************************************************************************)
(* State: one URLSafetyChecker instance (warnings, errors: the addresses   *)
(* its two attributes hold), the heap of list objects, and the caller's    *)
(* side of the last call: which method it called (last), the list it       *)
(* passed to check_batch (urls), the (url, Verdict) pairs it got back      *)
(* (held) and the exception that reached it (exception).  stale records    *)
(* whether the instance's lists held any entry when the last call began.   *)
(* For a run of one of the command-line tools: run is the command line and *)
(* the files it was started on, exit_code the exit status of the process   *)
(* (-1 while it has not exited), counts the aggregate counts of --batch    *)
(* mode and all_results the three site-wide lists of check_all_site_urls.  *)
(***************************************************************************)

VARIABLES heap, warnings, errors, held, exception, last, urls, stale,
          run, exit_code, counts, all_results

vars == << heap, warnings, errors, held, exception, last, urls, stale,
           run, exit_code, counts, all_results >>

\* the variables only a tool's main assigns
toolVars == << run, exit_code, counts, all_results >>

NoFile == [ exists |-> FALSE, lines |-> << >> ]
NoStdin == [ lines |-> << >>, end |-> "eof" ]
NoRun == [ tool |-> "none", args |-> << >>, file |-> NoFile, stdin |-> NoStdin,
           corpus |-> << >> ]
NoCounts == [ checked |-> 0, safe |-> 0, suspicious |-> 0, unsafe |-> 0 ]
NoResults == [ safe |-> << >>, suspicious |-> << >>, unsafe |-> << >> ]

HasEntries == Len(heap[warnings]) + Len(heap[errors]) > 0

\* Lists no reference reaches are reclaimed; the live ones keep their order.
Compact(h, w, e, hd) ==
    LET live == {w, e} \cup { hd[i][2].warnings : i \in DOMAIN hd }
                       \cup { hd[i][2].errors : i \in DOMAIN hd }
        rank(a) == Cardinality({ b \in live : b <= a })
    IN  [ heap |-> [ k \in 1..Cardinality(live) |->
                        h[CHOOSE a \in live : rank(a) = k] ],
          warnings |-> rank(w),
          errors |-> rank(e),
          held |-> [ i \in DOMAIN hd |->
                       << hd[i][1], [ hd[i][2] EXCEPT !.warnings = rank(@),
                                                      !.errors = rank(@) ] >> ] ]

\* URLSafetyChecker.__init__
Init ==
    /\ heap = << << >>, << >> >>
    /\ warnings = 1
    /\ errors = 2
    /\ held = << >>
    /\ exception = "None"
    /\ last = "init"
    /\ urls = << >>
    /\ stale = FALSE
    /\ run = NoRun
    /\ exit_code = -1
    /\ counts = NoCounts
    /\ all_results = NoResults

\* result = checker.check_url(v)
CheckUrl(v) ==
    \E r \in { check_url(heap, warnings, errors, v) } :
    \E c \in { Compact(r.heap, r.warnings, r.errors,
                       IF r.exception = "None" THEN << << v, r.result >> >> ELSE << >>) } :
        /\ heap' = c.heap
        /\ warnings' = c.warnings
        /\ errors' = c.errors
        /\ held' = c.held
        /\ exception' = r.exception
        /\ last' = "check_url"
        /\ urls' = << >>
        /\ stale' = HasEntries
        /\ UNCHANGED toolVars

\* results = checker.check_batch(urls)
CheckBatch(list) ==
    \E r \in { check_batch(heap, warnings, errors, list) } :
    \E c \in { Compact(r.heap, r.warnings, r.errors,
                       IF r.exception = "None" THEN r.results ELSE << >>) } :
        /\ heap' = c.heap
        /\ warnings' = c.warnings
        /\ errors' = c.errors
        /\ held' = c.held
        /\ exception' = r.exception
        /\ last' = "check_batch"
        /\ urls' = list
        /\ stale' = HasEntries
        /\ UNCHANGED toolVars

Next ==
    \/ \E v \in Inputs : CheckUrl(v)
    \/ \E list \in BatchLists : CheckBatch(list)

Spec == Init /\ [][Next]_vars

(***************************************************************************)
(* Reading a Verdict: the flags stored in the dict and the current         *)
(* contents of the two lists it refers to.                                 *)
(***************************************************************************)

View(h, r) ==
    [ safe |-> r.safe, suspicious |-> r.suspicious,
      warnings |-> h[r.warnings], errors |-> h[r.errors] ]

\* the Verdict a newly constructed checker returns for v
Isolated(v) ==
    LET r == check_url(<< << >>, << >> >>, 1, 2, v) IN View(r.heap, r.result)

(***************************************************************************)
(* Vocabulary of the properties: what a URL is, read off the argument      *)
(* alone.                                                                  *)
(***************************************************************************)

IsStr(v) == v.type = "str"
Text(v) == strip(v.val)
Parsed(v) == urlparse(Text(v))
Scheme(v) == Parsed(v).scheme
Host(v) == lower(Parsed(v).netloc)
HostContains(v, table) == \E k \in 1..Len(table) : Contains(Host(v), table[k])

\* v is a str that urlparse splits
Parses(v) == IsStr(v) /\ v.val # "" /\ ~Parsed(v).raised

\* v passes steps 1-4
WellFormed(v) == Parses(v) /\ Scheme(v) \in {"http", "https"} /\ Host(v) # ""

\* the Verdicts the caller holds, as it reads them now
HeldView(i) == View(heap, held[i][2])
HeldUrl(i) == held[i][1]

HoldsOnly(text) == last = "check_url" /\ Len(held) = 1 /\ HeldUrl(1) = Str(text)

InList(x, list) == \E k \in 1..Len(list) : list[k] = x

\* C1: in every Verdict check_url returns, safe is false exactly when the
\* errors list is non-empty and suspicious is true exactly when the warnings
\* list is non-empty; check_url("http://example.com") is safe and suspicious
\* with exactly one warning.
C1_FlagsFollowLists ==
    /\ \A i \in DOMAIN held :
          /\ ~HeldView(i).safe <=> Len(HeldView(i).errors) > 0
          /\ HeldView(i).suspicious <=> Len(HeldView(i).warnings) > 0
    /\ HoldsOnly("http://example.com") =>
          /\ HeldView(1).safe
          /\ HeldView(1).suspicious
          /\ HeldView(1).warnings = << HttpWarning >>

\* the scenario's Verdict: safe and suspicious at once
C1_Witness ==
    /\ HoldsOnly("http://example.com")
    /\ HeldView(1).safe
    /\ HeldView(1).suspicious
    /\ Len(HeldView(1).warnings) = 1

(***************************************************************************)
(* The hard checks in the order of steps 1-5, decided on the argument.     *)
(***************************************************************************)

FirstFailing(v) ==
    IF ~IsStr(v) \/ v.val = "" THEN "emptiness"
    ELSE IF Parsed(v).raised THEN "parse"
    ELSE IF Scheme(v) \notin {"http", "https"} THEN "scheme"
    ELSE IF Host(v) = "" THEN "host"
    ELSE IF HostContains(v, BLOCKLIST) THEN "blocklist"
    ELSE "none"

ErrorOf(v) ==
    CASE FirstFailing(v) = "emptiness" -> EmptyError
      [] FirstFailing(v) = "parse" -> ParseError
      [] FirstFailing(v) = "scheme" -> SchemeError(Scheme(v))
      [] FirstFailing(v) = "host" -> DomainError
      [] FirstFailing(v) = "blocklist" -> BlocklistError(Host(v))
      [] OTHER -> ""

\* what the checks before the failing one have recorded as warnings
WarningsBefore(v) ==
    IF FirstFailing(v) \in {"host", "blocklist"} /\ Scheme(v) = "http"
    THEN << HttpWarning >>
    ELSE << >>

\* C2: whenever check_url returns safe = false, the errors list holds exactly
\* one error, the error of the earliest failing check in the order emptiness,
\* parse, scheme, host presence, blocklist, and the Verdict holds nothing of
\* any later check: its warnings are those recorded before the failing check.
C2_FirstFailingCheckWins ==
    \A i \in DOMAIN held :
        ~HeldView(i).safe =>
            /\ FirstFailing(HeldUrl(i)) # "none"
            /\ HeldView(i).errors = << ErrorOf(HeldUrl(i)) >>
            /\ HeldView(i).warnings = WarningsBefore(HeldUrl(i))

\* a scheme failure on a text that later checks would also have flagged
\* (no host, an "@" in the text)
C2_Witness ==
    /\ HoldsOnly("mailto:someone@example.com")
    /\ ~HeldView(1).safe
    /\ HeldView(1).errors = << SchemeError("mailto") >>
    /\ HeldView(1).warnings = << >>

\* C3 as stated: for every URL whose lower-cased host contains a blocklist
\* entry, check_url returns safe = false with exactly the blocklist error and
\* an empty warnings list.
C3_BlocklistedNoWarnings ==
    \A i \in DOMAIN held :
        Parses(HeldUrl(i)) /\ HostContains(HeldUrl(i), BLOCKLIST) =>
            /\ ~HeldView(i).safe
            /\ HeldView(i).errors = << BlocklistError(Host(HeldUrl(i))) >>
            /\ HeldView(i).warnings = << >>

\* C3, amended: for every http:// or https:// URL whose lower-cased host
\* contains a blocklist entry, check_url returns safe = false with exactly the
\* blocklist error; the warnings list is empty for https and holds exactly the
\* insecure-transport warning for http, and no warning of step 7.
C3_BlocklistedHttpWarningOnly ==
    \A i \in DOMAIN held :
        WellFormed(HeldUrl(i)) /\ HostContains(HeldUrl(i), BLOCKLIST) =>
            /\ ~HeldView(i).safe
            /\ HeldView(i).errors = << BlocklistError(Host(HeldUrl(i))) >>
            /\ HeldView(i).warnings =
                  IF Scheme(HeldUrl(i)) = "http" THEN << HttpWarning >> ELSE << >>

\* a blocklisted http:// URL: the blocklist error next to the http warning
C3_Witness ==
    /\ HoldsOnly("http://malicious-example.com/x")
    /\ HeldView(1).errors = << BlocklistError("malicious-example.com") >>
    /\ HeldView(1).warnings = << HttpWarning >>

Clean == [ safe |-> TRUE, suspicious |-> FALSE, warnings |-> << >>, errors |-> << >> ]

\* C4: for every well-formed https:// URL whose host contains a whitelist
\* entry and no blocklist entry, check_url records no warning at all,
\* whatever the URL contains: the Verdict is safe = true, suspicious = false.
C4_WhitelistSkipsHeuristics ==
    \A i \in DOMAIN held :
        /\ WellFormed(HeldUrl(i))
        /\ Scheme(HeldUrl(i)) = "https"
        /\ HostContains(HeldUrl(i), WHITELIST)
        /\ ~HostContains(HeldUrl(i), BLOCKLIST)
        => HeldView(i) = Clean

\* a whitelisted host with dashes, a phishing phrase, an "@", an IP address
\* and a free TLD at the end of the URL
C4_Witness ==
    /\ HoldsOnly("https://docs.aws.amazon.com/a----------b/verify-account@1.2.3.4.tk")
    /\ \E p \in 1..Len(SUSPICIOUS_PATTERNS) : regex_search(p, Text(HeldUrl(1)))
    /\ HeldView(1) = Clean

\* C5: the whitelist never bypasses steps 1-5: for every URL whose host
\* contains a whitelist entry, a scheme other than http/https (or none) yields
\* the unsafe scheme Verdict, http records the insecure-transport warning
\* (suspicious = true), and a host that also contains a blocklist entry yields
\* the unsafe blocklist Verdict.
C5_WhitelistKeepsHardChecks ==
    \A i \in DOMAIN held :
        Parses(HeldUrl(i)) /\ HostContains(HeldUrl(i), WHITELIST) =>
            /\ Scheme(HeldUrl(i)) \notin {"http", "https"} =>
                  /\ ~HeldView(i).safe
                  /\ HeldView(i).errors = << SchemeError(Scheme(HeldUrl(i))) >>
            /\ Scheme(HeldUrl(i)) = "http" =>
                  /\ InList(HttpWarning, HeldView(i).warnings)
                  /\ HeldView(i).suspicious
            /\ Scheme(HeldUrl(i)) \in {"http", "https"}
                  /\ HostContains(HeldUrl(i), BLOCKLIST) =>
                  /\ ~HeldView(i).safe
                  /\ HeldView(i).errors = << BlocklistError(Host(HeldUrl(i))) >>

\* an http:// URL whose host holds a whitelist entry and a blocklist entry
C5_Witness ==
    /\ HoldsOnly("http://malicious-example.com.github.com/")
    /\ HostContains(HeldUrl(1), WHITELIST)
    /\ ~HeldView(1).safe
    /\ HeldView(1).suspicious

\* C6: check_url never raises to its caller: for every argument (empty
\* string, whitespace only, not a str, text that is not a URL, text urlparse
\* fails on) the call returns a Verdict, and every argument that fails a
\* hard check is reported by an error inside the Verdict with safe = false.
C6_NeverRaises ==
    /\ exception = "None"
    /\ last = "check_url" => Len(held) = 1
    /\ last = "check_batch" => Len(held) = Len(urls)
    /\ \A i \in DOMAIN held :
          ~WellFormed(HeldUrl(i)) =>
              /\ ~HeldView(i).safe
              /\ Len(HeldView(i).errors) >= 1

\* a text on which urlparse raises ValueError, returned as a Verdict
C6_Witness ==
    /\ HoldsOnly("http://[::1")
    /\ Parsed(HeldUrl(1)).raised
    /\ exception = "None"
    /\ ~HeldView(1).safe
    /\ HeldView(1).errors = << ParseError >>

\* C7: the Verdict check_url returns for a URL depends only on that URL and
\* not on the calls made on the instance before: it is the Verdict a newly
\* constructed checker returns for it, so nothing of an earlier call appears
\* in it and a repeated call returns an identical Verdict.
C7_VerdictDependsOnUrlOnly ==
    last = "check_url" =>
        /\ Len(held) = 1
        /\ HeldView(1) = Isolated(HeldUrl(1))

\* a call that began with entries of an earlier call in the instance's lists
\* and returned a Verdict with none
C7_Witness ==
    /\ HoldsOnly("https://example.com")
    /\ stale
    /\ HeldView(1) = Clean

\* C8: check_batch(urls) returns a sequence as long as urls whose i-th pair
\* is (urls[i], V_i), and at the time it returns every V_i reads as the
\* Verdict check_url gives urls[i] in isolation.
C8_BatchInOrderAndIndependent ==
    last = "check_batch" =>
        /\ Len(held) = Len(urls)
        /\ \A i \in DOMAIN held :
              /\ HeldUrl(i) = urls[i]
              /\ HeldView(i) = Isolated(urls[i])

\* the scenario's batch: three results in input order, the second unsafe,
\* the first and the third still without entries
C8_Witness ==
    /\ last = "check_batch"
    /\ urls = << Str("https://a.com"), Str("not a url"), Str("https://github.com") >>
    /\ HeldView(1) = Clean
    /\ ~HeldView(2).safe /\ Len(HeldView(2).errors) = 1
    /\ HeldView(3) = Clean

FreeTlds == { ".tk", ".ml", ".ga", ".cf", ".gq" }

\* v passes steps 1-5 and is not whitelisted: step 7 runs on it
Scanned(v) ==
    /\ WellFormed(v)
    /\ ~HostContains(v, BLOCKLIST)
    /\ ~HostContains(v, WHITELIST)

\* C9 as stated: for a URL that reaches step 7 and whose host ends in a free
\* TLD, check_url records the free-TLD warning whether or not a path or query
\* follows the host; check_url("https://secure-verify-account.tk/login") is
\* safe and suspicious with the free-TLD and the phishing-phrase warnings.
C9_FreeTldAlwaysWarned ==
    /\ \A i \in DOMAIN held :
          Scanned(HeldUrl(i)) /\ (\E t \in FreeTlds : EndsWith(Host(HeldUrl(i)), t)) =>
              InList(PatternWarning(3), HeldView(i).warnings)
    /\ HoldsOnly("https://secure-verify-account.tk/login") =>
          /\ HeldView(1).safe
          /\ HeldView(1).suspicious
          /\ InList(PatternWarning(3), HeldView(1).warnings)
          /\ InList(PatternWarning(6), HeldView(1).warnings)

Brands == { "paypal", "amazon", "microsoft", "google", "apple" }

\* C10 as stated: for a URL that reaches step 7, a brand name followed by
\* "login" gets the brand-impersonation warning, and a URL without "login"
\* gets none, whichever brand name it contains.
C10_BrandNeedsLogin ==
    \A i \in DOMAIN held :
        Scanned(HeldUrl(i)) =>
            LET text == lower(Text(HeldUrl(i)))
                warned == InList(PatternWarning(5), HeldView(i).warnings)
            IN  /\ (\E b \in Brands : GapMatch(text, b, "login")) => warned
                /\ ~Contains(text, "login") => ~warned

(***************************************************************************)
(* The command-line tool: main of check_url_safety.py.  args is sys.argv   *)
(* without the program name; file is the file --batch names (absent, or    *)
(* its lines); stdin is what --interactive reads: the lines typed, then    *)
(* either Ctrl+C ("interrupt") or the end of the input ("eof").            *)
(***************************************************************************)

\* line 221: urls = [line.strip() for line in f if line.strip()]
RECURSIVE ReadUrls(_)
ReadUrls(lines) ==
    IF lines = << >> THEN << >>
    ELSE (IF strip(Head(lines)) # "" THEN << Str(strip(Head(lines))) >> ELSE << >>)
            \o ReadUrls(Tail(lines))

\* sum(1 for _, r in results if P(r))
CountIf(results, P(_)) == Cardinality({ i \in DOMAIN results : P(results[i][2]) })

IsSafe(r) == r.safe
IsUnsafe(r) == ~r.safe
IsSuspiciousAndSafe(r) == r.suspicious /\ r.safe

\* lines 228-230
BatchCounts(list, results) ==
    [ checked    |-> Len(list),
      safe       |-> CountIf(results, IsSafe),
      suspicious |-> CountIf(results, IsSuspiciousAndSafe),
      unsafe     |-> CountIf(results, IsUnsafe) ]

\* lines 242-244, and the end of main
ExitOfBatch(c) == IF c.unsafe > 0 THEN 1 ELSE 0

\* variant: a suspicious Verdict exits 1 too
ExitOfSingle_Suspicious(result) == IF ~result.safe \/ result.suspicious THEN 1 ELSE 0

\* lines 252-258
ExitOfSingle(result) == IF ~result.safe THEN 1 ELSE 0

\* how a run of main ends: the checker it leaves, the results it holds, the
\* exception that ended it (other than SystemExit) and the exit status
Ended(h, w, e, hd, list, c, exc, code) ==
    [ heap |-> h, warnings |-> w, errors |-> e, held |-> hd, urls |-> list,
      counts |-> c, exception |-> exc, exit_code |-> code ]

\* lines 175-194: the loop of interactive_mode from line i of the input on;
\* hd is the (url, result) of the last check
RECURSIVE InteractiveLoop(_, _, _, _, _, _)
InteractiveLoop(h, w, e, hd, stdin, i) ==
    IF i > Len(stdin.lines)
    THEN IF stdin.end = "interrupt"
         THEN Ended(h, w, e, hd, << >>, NoCounts, "None", 0)
         ELSE Ended(h, w, e, hd, << >>, NoCounts, "EOFError", 1)
    ELSE LET url == strip(stdin.lines[i]) IN
         IF lower(url) \in {"quit", "exit", "q"}
         THEN Ended(h, w, e, hd, << >>, NoCounts, "None", 0)
         ELSE IF url = ""
         THEN InteractiveLoop(h, w, e, hd, stdin, i + 1)
         ELSE The({ InteractiveLoop(r.heap, r.warnings, r.errors,
                                    << << Str(url), r.result >> >>, stdin, i + 1) :
                      r \in { check_url(h, w, e, Str(url)) } })

\* lines 212-244
BatchMode(h, w, e, args, file) ==
    IF Len(args) < 2 THEN Ended(h, w, e, << >>, << >>, NoCounts, "None", 1)
    ELSE IF ~file.exists THEN Ended(h, w, e, << >>, << >>, NoCounts, "None", 1)
    ELSE The({ The({ Ended(r.heap, r.warnings, r.errors, r.results, list, c,
                           "None", ExitOfBatch(c)) :
                       c \in { BatchCounts(list, r.results) } }) :
                 list \in { ReadUrls(file.lines) },
                 r \in { check_batch(h, w, e, ReadUrls(file.lines)) } })

\* lines 246-258
SingleMode(h, w, e, args) ==
    The({ Ended(r.heap, r.warnings, r.errors, << << Str(args[1]), r.result >> >>,
                << >>, NoCounts, "None", ExitOfSingle(r.result)) :
            r \in { check_url(h, w, e, Str(args[1])) } })

\* lines 197-258
main(args, file, stdin) ==
    IF Len(args) < 1
    THEN Ended(<< << >>, << >> >>, 1, 2, << >>, << >>, NoCounts, "None", 1)
    ELSE IF args[1] = "--interactive"
    THEN InteractiveLoop(<< << >>, << >> >>, 1, 2, << >>, stdin, 1)
    ELSE IF args[1] = "--batch"
    THEN BatchMode(<< << >>, << >> >>, 1, 2, args, file)
    ELSE SingleMode(<< << >>, << >> >>, 1, 2, args)

(***************************************************************************)
(* The command lines, batch files and interactive inputs of the model.     *)
(***************************************************************************)

FileLines == { "https://a.com\n", "  http://example.com  \n", "\n",
               "https://malicious-example.com\n", "not a url\n" }

\* most lines in a batch file
MaxFileLines == 3

Files == { [ exists |-> TRUE, lines |-> q ] : q \in SeqsUpTo(FileLines, MaxFileLines) }
            \cup { NoFile }

TypedLines == { "https://a.com", "", " Q ", "http://example.com",
                "https://malicious-example.com" }

\* most lines typed in interactive mode
MaxTyped == 2

Stdins == { [ lines |-> q, end |-> x ] :
               q \in SeqsUpTo(TypedLines, MaxTyped), x \in {"interrupt", "eof"} }

CliRun(args, file, stdin) ==
    [ tool |-> "check_url_safety", args |-> args, file |-> file, stdin |-> stdin,
      corpus |-> << >> ]

CliRuns ==
    { CliRun(<< >>, NoFile, NoStdin), CliRun(<< "--batch" >>, NoFile, NoStdin) }
    \cup { CliRun(<< UrlTexts[i] >>, NoFile, NoStdin) : i \in 1..Len(UrlTexts) }
    \cup { CliRun(<< "--batch", "urls.txt" >>, f, NoStdin) : f \in Files }
    \cup { CliRun(<< "--interactive" >>, NoFile, t) : t \in Stdins }

\* python3 tools/check_url_safety.py args...: one run of the process
Main(r) ==
    /\ last = "init"
    /\ \E o \in { main(r.args, r.file, r.stdin) } :
       \E c \in { Compact(o.heap, o.warnings, o.errors, o.held) } :
          /\ heap' = c.heap
          /\ warnings' = c.warnings
          /\ errors' = c.errors
          /\ held' = c.held
          /\ exception' = o.exception
          /\ last' = "main"
          /\ urls' = o.urls
          /\ stale' = FALSE
          /\ run' = r
          /\ exit_code' = o.exit_code
          /\ counts' = o.counts
          /\ all_results' = NoResults

(***************************************************************************)
(* The site-wide report: main of check_all_site_urls.py.  An HTML file is  *)
(* given by whether it can be read and by the URLs the three findall       *)
(* calls of extract_urls_from_html find in it, in the order found (a URL   *)
(* found by two patterns appears twice).  The corpus is the list of files  *)
(* in the sorted order of line 47; the printing is not modelled.           *)
(***************************************************************************)

\* lines 34-40: remove duplicates while preserving order
RECURSIVE Unique(_, _)
Unique(found, seen) ==
    IF found = << >> THEN << >>
    ELSE IF Head(found) \in seen THEN Unique(Tail(found), seen)
    ELSE << Head(found) >> \o Unique(Tail(found), seen \cup { Head(found) })

\* lines 11-42; a file that cannot be read yields no URL (lines 31-32)
extract_urls_from_html(file) ==
    IF file.readable THEN Unique(file.found, { }) ELSE << >>

\* html_file.name of the i-th file
FileName(i) == "page" \o ToString(i) \o ".html"

\* lines 82-93: the list a result goes to
ListOf(result) ==
    IF ~result.safe THEN "unsafe"
    ELSE IF result.suspicious THEN "suspicious"
    ELSE "safe"

\* lines 80-93: the result r of check_url(url) goes to one site-wide list
Placed(st, name, url, r) ==
    [ heap |-> r.heap, warnings |-> r.warnings, errors |-> r.errors,
      all |-> [ st.all EXCEPT
                  ![ListOf(r.result)] = Append(@, << name, url, r.result >>) ] ]

\* lines 79-93 for the URLs of one file, from index j on; all is all_results
RECURSIVE UrlLoop(_, _, _, _)
UrlLoop(st, name, list, j) ==
    IF j > Len(list) THEN st
    ELSE The({ UrlLoop(placed, name, list, j + 1) :
                 placed \in { Placed(st, name, list[j], r) :
                                r \in { check_url(st.heap, st.warnings, st.errors,
                                                  Str(list[j])) } } })

\* lines 65-107, from the i-th file on
RECURSIVE FileLoop(_, _, _)
FileLoop(st, corpus, i) ==
    IF i > Len(corpus) THEN st
    ELSE LET list == extract_urls_from_html(corpus[i]) IN
         IF list = << >>
         THEN FileLoop(st, corpus, i + 1)
         ELSE The({ FileLoop(checked, corpus, i + 1) :
                      checked \in { UrlLoop(st, FileName(i), list, 1) } })

\* the entries of a site-wide list, each Verdict read
Entries(h, list) ==
    [ k \in DOMAIN list |-> << list[k][1], list[k][2], View(h, list[k][3]) >> ]

\* lines 115-122 and 185-190, with line 193: exit(main()).  The percentages
\* of lines 120-122 divide by total_urls.
SiteSummary(st, total_urls, lists) ==
    IF total_urls = 0
    THEN [ heap |-> st.heap, warnings |-> st.warnings, errors |-> st.errors,
           all_results |-> lists, exception |-> "ZeroDivisionError",
           exit_code |-> 1 ]
    ELSE [ heap |-> st.heap, warnings |-> st.warnings, errors |-> st.errors,
           all_results |-> lists, exception |-> "None",
           exit_code |-> IF Len(lists.unsafe) > 0 THEN 1 ELSE 0 ]

\* what main has in all_results after the loop over the files
SiteLists(st) ==
    The({ SiteSummary(st, total_urls, lists) :
            total_urls \in { Len(st.all.safe) + Len(st.all.suspicious)
                               + Len(st.all.unsafe) },
            lists \in { [ safe |-> Entries(st.heap, st.all.safe),
                          suspicious |-> Entries(st.heap, st.all.suspicious),
                          unsafe |-> Entries(st.heap, st.all.unsafe) ] } })

\* lines 44-190
site_main(corpus) ==
    The({ SiteLists(st) :
            st \in { FileLoop([ heap |-> << << >>, << >> >>, warnings |-> 1,
                                errors |-> 2, all |-> NoResults ], corpus, 1) } })

HtmlFile(readable, found) == [ readable |-> readable, found |-> found ]

HtmlFiles == {
    HtmlFile(FALSE, << >>),
    HtmlFile(TRUE, << >>),
    HtmlFile(TRUE, << "https://a.com", "https://a.com" >>),
    HtmlFile(TRUE, << "http://example.com", "https://a.com" >>),
    HtmlFile(TRUE, << "https://malicious-example.com" >>),
    HtmlFile(TRUE, << "https://github.com", "https://malicious-example.com",
                      "http://example.com", "https://github.com" >>) }

\* most HTML files in the site's root directory
MaxFiles == 3

Corpora == SeqsUpTo(HtmlFiles, MaxFiles)

SiteRun(corpus) ==
    [ tool |-> "check_all_site_urls", args |-> << >>, file |-> NoFile,
      stdin |-> NoStdin, corpus |-> corpus ]

\* python3 tools/check_all_site_urls.py: one run of the process
SiteMain(corpus) ==
    /\ last = "init"
    /\ \E o \in { site_main(corpus) } :
       \E c \in { Compact(o.heap, o.warnings, o.errors, << >>) } :
          /\ heap' = c.heap
          /\ warnings' = c.warnings
          /\ errors' = c.errors
          /\ held' = << >>
          /\ exception' = o.exception
          /\ last' = "main"
          /\ urls' = << >>
          /\ stale' = FALSE
          /\ run' = SiteRun(corpus)
          /\ exit_code' = o.exit_code
          /\ counts' = NoCounts
          /\ all_results' = o.all_results

NextTools ==
    \/ \E r \in CliRuns : Main(r)
    \/ \E corpus \in Corpora : SiteMain(corpus)

SpecTools == Init /\ [][NextTools]_vars

\* the runs "check <url>" and "check --batch <file>"
SingleUrlRun ==
    /\ last = "main"
    /\ run.tool = "check_url_safety"
    /\ Len(run.args) = 1
    /\ run.args[1] \notin {"--batch", "--interactive"}

BatchRun ==
    /\ last = "main"
    /\ run.tool = "check_url_safety"
    /\ Len(run.args) >= 2
    /\ run.args[1] = "--batch"

\* C11: "check <url>" exits 1 if the URL's Verdict is unsafe and 0 otherwise,
\* also when it is suspicious; "check --batch <file>" exits 1 if at least one
\* URL of the file is unsafe and 0 if none is; a missing batch file exits 1
\* without classifying anything.
C11_ExitCodeReflectsVerdicts ==
    /\ SingleUrlRun =>
          exit_code = IF Isolated(Str(run.args[1])).safe THEN 0 ELSE 1
    /\ BatchRun /\ run.file.exists =>
          exit_code = IF \E k \in DOMAIN ReadUrls(run.file.lines) :
                             ~Isolated(ReadUrls(run.file.lines)[k]).safe
                      THEN 1 ELSE 0
    /\ BatchRun /\ ~run.file.exists =>
          /\ exit_code = 1
          /\ held = << >>
          /\ ~HasEntries

\* a suspicious URL on the command line: exit status 0
C11_Witness ==
    /\ SingleUrlRun
    /\ run.args = << "http://example.com" >>
    /\ HeldView(1).safe
    /\ HeldView(1).suspicious
    /\ exit_code = 0

\* the (file, url) pairs the report has to place: every URL extracted from
\* every file of the corpus
Extracted(corpus) ==
    UNION { { << FileName(i), extract_urls_from_html(corpus[i])[k] >> :
                k \in DOMAIN extract_urls_from_html(corpus[i]) } : i \in DOMAIN corpus }

\* how often (file, url) occurs in a site-wide list
Occurrences(list, pair) ==
    Cardinality({ k \in DOMAIN list : << list[k][1], list[k][2] >> = pair })

SiteReportRun == last = "main" /\ run.tool = "check_all_site_urls"

\* C12 as stated: for every corpus of HTML files the site-wide report runs to
\* completion and returns exit status 1 if at least one extracted URL is
\* unsafe and 0 if none is, also for a corpus with no HTML file or with no
\* URL in any file; every extracted URL is in exactly one of the safe,
\* suspicious and unsafe lists.
C12_SiteReportCompletes ==
    SiteReportRun =>
        /\ exception = "None"
        /\ exit_code = IF \E pair \in Extracted(run.corpus) : ~Isolated(Str(pair[2])).safe
                       THEN 1 ELSE 0
        /\ \A pair \in Extracted(run.corpus) :
              Occurrences(all_results.safe, pair)
                + Occurrences(all_results.suspicious, pair)
                + Occurrences(all_results.unsafe, pair) = 1

\* the URLs of the batch that the three-way split of check_existing_urls and
\* check_all_site_urls puts in the given list
SplitCount(to) ==
    Cardinality({ i \in DOMAIN held : ListOf(HeldView(i)) = to })

\* C13 as stated: in --batch mode the three printed counts partition the
\* checked URLs: every URL is counted in exactly one of Safe, Suspicious and
\* Unsafe, as in the three-way split of check_existing_urls and
\* check_all_site_urls, so the counts sum to the number of URLs checked.
C13_BatchCountsPartition ==
    (BatchRun /\ run.file.exists) =>
        /\ counts.checked = Len(held)
        /\ counts.safe = SplitCount("safe")
        /\ counts.suspicious = SplitCount("suspicious")
        /\ counts.unsafe = SplitCount("unsafe")
        /\ counts.safe + counts.suspicious + counts.unsafe = counts.checked

====
